---- MODULE Spec2Model ----
(***************************************************************************)
(* Model of src/mention-bot.js: the diff parser (parseDiff, parseDiffFile), *)
(* the file selection and owner lookup of checkRepoPath / getPathInfo, the  *)
(* debugging cache (cacheGet) and the two reviewer filters (filterOwnTeam,  *)
(* filterPrivateRepo).                                                      *)
(*                                                                          *)
(* Text is modelled as a sequence of lines (the text split at "\n") and a   *)
(* line as a sequence of tokens (the line cut at every place where one of   *)
(* the prefixes or patterns the code tests can end).  The empty line is the *)
(* empty token sequence, so the empty text "" is the one-line text << <<>> >>. *)
(***************************************************************************)
EXTENDS Naturals, Integers, Sequences, FiniteSets, TLC

\* ------------------------------------------------------------------ bounds
MaxBody == 5      \* lines of hunk body in an enumerated textual block
MaxBlocks == 2    \* file blocks in an enumerated multi-block diff
MaxRaw == 2       \* lines of an enumerated unstructured text
MaxFiles == 3     \* file blocks in the diff of a pull request
MaxCap == 3       \* the largest numFilesToCheck tried
MaxUsers == 2     \* entries of the user whitelist
MaxOwners == 3    \* owners handed to a reviewer filter
MaxComputes == 2  \* diff fetches made for one cache file

\* ------------------------------------------------------ strings and lines
\* lines.pop() on an empty array
UNDEFINED == <<"undefined">>

startsWith(str, start) ==
    /\ str # UNDEFINED
    /\ Len(str) >= Len(start)
    /\ SubSeq(str, 1, Len(start)) = start

\* a receiver of .match / an argument of startsWith that is undefined raises
\* a TypeError
IsUndefined(line) == line = UNDEFINED

\* !line : undefined and the empty string are falsy
Falsy(line) == line = UNDEFINED \/ line = <<>>

Reverse(s) == [i \in 1..Len(s) |-> s[Len(s) + 1 - i]]

Pop(lines) == IF Len(lines) = 0 THEN UNDEFINED ELSE lines[Len(lines)]

PopRest(lines) == IF Len(lines) = 0 THEN lines ELSE SubSeq(lines, 1, Len(lines) - 1)

\* [0-9]+ and the unary plus that converts it
NumVal == [t \in {"0", "1", "5"} |-> IF t = "0" THEN 0 ELSE IF t = "1" THEN 1 ELSE 5]

IsDigits(t) == t \in DOMAIN NumVal

\* /^diff --git a\//
MatchGitHeader(line) == startsWith(line, <<"diff", " --git", " a/">>)

\* positions k of a " b/" that has at least one token of path before it and
\* at least one token after it
BSlashPositions(line) ==
    {k \in 5..(Len(line) - 1) : line[k] = " b/"}

Max(S) == CHOOSE x \in S : \A y \in S : y <= x

\* line.replace(/^diff --git a\/(.+) b\/.+/g, '$1'): (.+) is greedy, the
\* match runs to the end of the line, and a line that does not match is
\* returned unchanged
FromFile(line) ==
    IF MatchGitHeader(line) /\ BSlashPositions(line) # {}
    THEN SubSeq(line, 4, Max(BSlashPositions(line)) - 1)
    ELSE line

\* /^\+\+\+ /
MatchPlusPlusPlus(line) == startsWith(line, <<"+", "++ ">>)

\* /^\@\@ -([0-9]+),?([0-9]+)? \+([0-9]+),?([0-9]+)? \@\@/ : the index after
\* the optional ",", and after the optional count
AfterComma(line, i) == IF i <= Len(line) /\ line[i] = "," THEN i + 1 ELSE i

AfterCount(line, i) == IF i <= Len(line) /\ IsDigits(line[i]) THEN i + 1 ELSE i

\* null (<<>>) or <<matches[1]>>
MatchHunkHeader(line) ==
    IF /\ Len(line) >= 3
       /\ line[1] = "@@" /\ line[2] = " -" /\ IsDigits(line[3])
    THEN LET i == AfterCount(line, AfterComma(line, 4))
         IN IF /\ i + 1 <= Len(line)
               /\ line[i] = " +" /\ IsDigits(line[i + 1])
            THEN LET j == AfterCount(line, AfterComma(line, i + 2))
                 IN IF j <= Len(line) /\ line[j] = " @@"
                    THEN <<line[3]>>
                    ELSE <<>>
            ELSE <<>>
    ELSE <<>>

\* HunkLoop with the cursor advancing on every line, additions included
RECURSIVE HunkLoopAddAdvances(_, _, _)
HunkLoopAddAdvances(lines, currentFromLine, deletedLines) ==
    IF Len(lines) = 0
    THEN [lines |-> lines, deletedLines |-> deletedLines]
    ELSE LET line == Pop(lines)
             rest == PopRest(lines)
         IN IF startsWith(line, <<"diff", " --git">>)
            THEN [lines |-> lines, deletedLines |-> deletedLines]
            ELSE IF startsWith(line, <<"@@">>)
            THEN LET matches == MatchHunkHeader(line)
                 IN IF matches = <<>>
                    THEN HunkLoopAddAdvances(rest, currentFromLine, deletedLines)
                    ELSE HunkLoopAddAdvances(rest, NumVal[matches[1]], deletedLines)
            ELSE HunkLoopAddAdvances(rest,
                          currentFromLine + 1,
                          IF startsWith(line, <<"-">>)
                          THEN Append(deletedLines, currentFromLine)
                          ELSE deletedLines)

\* the while loop of parseDiffFile over the hunk lines
RECURSIVE HunkLoop(_, _, _)
HunkLoop(lines, currentFromLine, deletedLines) ==
    IF Len(lines) = 0
    THEN [lines |-> lines, deletedLines |-> deletedLines]
    ELSE LET line == Pop(lines)
             rest == PopRest(lines)
         IN IF startsWith(line, <<"diff", " --git">>)
            THEN [lines |-> lines, deletedLines |-> deletedLines]
            ELSE IF startsWith(line, <<"@@">>)
            THEN LET matches == MatchHunkHeader(line)
                 IN IF matches = <<>>
                    THEN HunkLoop(rest, currentFromLine, deletedLines)
                    ELSE HunkLoop(rest, NumVal[matches[1]], deletedLines)
            ELSE HunkLoop(rest,
                          IF startsWith(line, <<"+">>)
                          THEN currentFromLine ELSE currentFromLine + 1,
                          IF startsWith(line, <<"-">>)
                          THEN Append(deletedLines, currentFromLine)
                          ELSE deletedLines)

Thrown(kind) == [status |-> kind, path |-> <<>>, deletedLines |-> <<>>, lines |-> <<>>]

Parsed(path, deleted, lines) ==
    [status |-> "ok", path |-> path, deletedLines |-> deleted, lines |-> lines]

\* parseDiffFile without the extra pop after a "new file" / "deleted file" line
ParseDiffFileNoSkip(lines) ==
    LET line1 == Pop(lines)
        l1 == PopRest(lines)
        line2 == Pop(l1)
        l3 == PopRest(l1)
        line4 == Pop(l3)
        l4 == PopRest(l3)
        line5 == Pop(l4)
        l5 == PopRest(l4)
        fromFile == FromFile(line1)
    IN IF ~MatchGitHeader(line1) THEN Thrown("Error")
       ELSE IF IsUndefined(line2) THEN Thrown("TypeError")
       ELSE IF Falsy(line4) THEN Parsed(fromFile, <<>>, l4)
       ELSE IF startsWith(line4, <<"diff", " --git">>) THEN Parsed(fromFile, <<>>, l3)
       ELSE IF startsWith(line4, <<"Binary files">>) THEN Parsed(fromFile, <<>>, l4)
       ELSE IF startsWith(line4, <<"-", "-- ">>)
       THEN IF IsUndefined(line5) THEN Thrown("TypeError")
            ELSE IF ~MatchPlusPlusPlus(line5) THEN Thrown("Error")
            ELSE LET r == HunkLoop(l5, 0, <<>>)
                 IN Parsed(fromFile, r.deletedLines, r.lines)
       ELSE Parsed(fromFile, <<>>, l4)

\* parseDiffFile pushing back, at a "diff --git" line, every line it popped
ParseDiffFilePushesAllBack(lines) ==
    LET line1 == Pop(lines)
        l1 == PopRest(lines)
        line2 == Pop(l1)
        l2 == PopRest(l1)
        skip == startsWith(line2, <<"deleted file">>) \/ startsWith(line2, <<"new file">>)
        l3 == IF skip THEN PopRest(l2) ELSE l2
        line4 == Pop(l3)
        l4 == PopRest(l3)
        line5 == Pop(l4)
        l5 == PopRest(l4)
        fromFile == FromFile(line1)
    IN IF ~MatchGitHeader(line1) THEN Thrown("Error")
       ELSE IF IsUndefined(line2) THEN Thrown("TypeError")
       ELSE IF Falsy(line4) THEN Parsed(fromFile, <<>>, l4)
       ELSE IF startsWith(line4, <<"diff", " --git">>) THEN Parsed(fromFile, <<>>, lines)
       ELSE IF startsWith(line4, <<"Binary files">>) THEN Parsed(fromFile, <<>>, l4)
       ELSE IF startsWith(line4, <<"-", "-- ">>)
       THEN IF IsUndefined(line5) THEN Thrown("TypeError")
            ELSE IF ~MatchPlusPlusPlus(line5) THEN Thrown("Error")
            ELSE LET r == HunkLoop(l5, 0, <<>>)
                 IN Parsed(fromFile, r.deletedLines, r.lines)
       ELSE Parsed(fromFile, <<>>, l4)

\* parseDiffFile(lines), lines not empty: the record it returns and the
\* lines it leaves, or the error it throws
ParseDiffFile(lines) ==
    LET line1 == Pop(lines)
        l1 == PopRest(lines)
        line2 == Pop(l1)
        l2 == PopRest(l1)
        skip == startsWith(line2, <<"deleted file">>) \/ startsWith(line2, <<"new file">>)
        l3 == IF skip THEN PopRest(l2) ELSE l2
        line4 == Pop(l3)
        l4 == PopRest(l3)
        line5 == Pop(l4)
        l5 == PopRest(l4)
        fromFile == FromFile(line1)
    IN IF ~MatchGitHeader(line1) THEN Thrown("Error")
       ELSE IF IsUndefined(line2) THEN Thrown("TypeError")
       ELSE IF Falsy(line4) THEN Parsed(fromFile, <<>>, l4)
       ELSE IF startsWith(line4, <<"diff", " --git">>) THEN Parsed(fromFile, <<>>, l3)
       ELSE IF startsWith(line4, <<"Binary files">>) THEN Parsed(fromFile, <<>>, l4)
       ELSE IF startsWith(line4, <<"-", "-- ">>)
       THEN IF IsUndefined(line5) THEN Thrown("TypeError")
            ELSE IF ~MatchPlusPlusPlus(line5) THEN Thrown("Error")
            ELSE LET r == HunkLoop(l5, 0, <<>>)
                 IN Parsed(fromFile, r.deletedLines, r.lines)
       ELSE Parsed(fromFile, <<>>, l4)

\* the guard of parseDiff testing only for the empty text
NotADiffOnlyEmpty(diff) == diff = << <<>> >>

\* !diff || !diff.match(/^diff/)
NotADiff(diff) == diff = << <<>> >> \/ ~startsWith(diff[1], <<"diff">>)

Whitespace == {" "}

\* String.prototype.trim at the end of the text: white space at the end of
\* the last line goes, and so does a line break that nothing follows
RECURSIVE TrimEnd(_)
TrimEnd(text) ==
    IF Len(text) = 0 THEN << <<>> >>
    ELSE LET last == text[Len(text)]
         IN IF last = <<>>
            THEN IF Len(text) = 1 THEN text ELSE TrimEnd(PopRest(text))
            ELSE IF last[Len(last)] \in Whitespace
            THEN TrimEnd(Append(PopRest(text), PopRest(last)))
            ELSE text

\* diff.trim().split('\n') then lines.reverse(); the text starts with "diff"
\* here, so trim removes nothing at its start
SplitLines(diff) == Reverse(TrimEnd(diff))

FileInfo(r) == [path |-> r.path, deletedLines |-> r.deletedLines]

\* parseDiff(diff) as one call: the files it returns, or the error
RECURSIVE ParseLoop(_, _)
ParseLoop(stack, acc) ==
    IF Len(stack) = 0 THEN [status |-> "ok", files |-> acc]
    ELSE LET r == ParseDiffFile(stack)
         IN IF r.status = "ok"
            THEN ParseLoop(r.lines, Append(acc, FileInfo(r)))
            ELSE [status |-> r.status, files |-> <<>>]

ParseDiff(text) ==
    IF NotADiff(text) THEN [status |-> "ok", files |-> <<>>]
    ELSE ParseLoop(SplitLines(text), <<>>)

\* ----------------------------------------- file selection (checkRepoPath)
\* the comparator with its two results exchanged
CompareFilesAscending(a, b) ==
    LET countA == Len(a.deletedLines)
        countB == Len(b.deletedLines)
    IN IF countA > countB THEN 1 ELSE IF countA < countB THEN -1 ELSE 0

\* the comparator of files.sort
CompareFiles(a, b) ==
    LET countA == Len(a.deletedLines)
        countB == Len(b.deletedLines)
    IN IF countA > countB THEN -1 ELSE IF countA < countB THEN 1 ELSE 0

\* Array.prototype.sort with that comparator: the order of files that
\* compare equal is left to the engine, so every arrangement of the files
\* that the comparator accepts is a possible outcome
SortResults(fs) ==
    {p \in {[i \in 1..Len(fs) |-> fs[s[i]]] : s \in Permutations(1..Len(fs))} :
        \A i \in 1..Len(p) : \A j \in (i + 1)..Len(p) : CompareFiles(p[i], p[j]) <= 0}

\* str.split("/")
RECURSIVE Split(_)
Split(str) ==
    IF \A i \in 1..Len(str) : str[i] # "/" THEN <<str>>
    ELSE LET k == CHOOSE i \in 1..Len(str) :
                     str[i] = "/" /\ \A j \in 1..(i - 1) : str[j] # "/"
         IN <<SubSeq(str, 1, k - 1)>> \o Split(SubSeq(str, k + 1, Len(str)))

\* parts.join("/")
RECURSIVE Join(_)
Join(parts) ==
    IF Len(parts) = 0 THEN <<>>
    ELSE IF Len(parts) = 1 THEN parts[1]
    ELSE parts[1] \o <<"/">> \o Join(Tail(parts))

\* minimatch on one path segment: "*" stands for any run of characters
RECURSIVE SegmentMatch(_, _)
SegmentMatch(seg, pat) ==
    IF Len(pat) = 0 THEN Len(seg) = 0
    ELSE IF Head(pat) = "*"
    THEN SegmentMatch(seg, Tail(pat)) \/ (Len(seg) > 0 /\ SegmentMatch(Tail(seg), pat))
    ELSE Len(seg) > 0 /\ Head(seg) = Head(pat) /\ SegmentMatch(Tail(seg), Tail(pat))

\* minimatch on the segments: "**" stands for any run of segments
RECURSIVE SegmentsMatch(_, _)
SegmentsMatch(segs, pats) ==
    IF Len(pats) = 0 THEN Len(segs) = 0
    ELSE IF Head(pats) = <<"**">>
    THEN SegmentsMatch(segs, Tail(pats)) \/ (Len(segs) > 0 /\ SegmentsMatch(Tail(segs), pats))
    ELSE Len(segs) > 0 /\ SegmentMatch(Head(segs), Head(pats))
                       /\ SegmentsMatch(Tail(segs), Tail(pats))

\* minimatch(file.path, glob)
minimatch(path, glob) == SegmentsMatch(Split(path), Split(glob))

\* the forEach over fileBlacklist keeping the files the glob matches
RECURSIVE RemoveBlacklistedInverted(_, _)
RemoveBlacklistedInverted(fs, fileBlacklist) ==
    IF Len(fileBlacklist) = 0 THEN fs
    ELSE LET Keep(file) == minimatch(file.path, Head(fileBlacklist))
         IN RemoveBlacklistedInverted(SelectSeq(fs, Keep), Tail(fileBlacklist))

\* repoConfig.fileBlacklist.forEach(glob => files = files.filter(...))
RECURSIVE RemoveBlacklisted(_, _)
RemoveBlacklisted(fs, fileBlacklist) ==
    IF Len(fileBlacklist) = 0 THEN fs
    ELSE LET Keep(file) == ~minimatch(file.path, Head(fileBlacklist))
         IN RemoveBlacklisted(SelectSeq(fs, Keep), Tail(fileBlacklist))

\* files.slice(0, n) taking one file too many
SliceOneMore(fs, n) == SubSeq(fs, 1, IF n + 1 < Len(fs) THEN n + 1 ELSE Len(fs))

\* files.slice(0, repoConfig.numFilesToCheck)
Slice(fs, n) == SubSeq(fs, 1, IF n < Len(fs) THEN n ELSE Len(fs))

\* the selection with the truncation done before the blacklist removal
SelectSliceFirst(sorted, fileBlacklist, n) ==
    RemoveBlacklisted(Slice(sorted, n), fileBlacklist)

\* lines 345-351 on the sorted files: blacklist removal, then truncation
Select(sorted, fileBlacklist, n) ==
    Slice(RemoveBlacklisted(sorted, fileBlacklist), n)

\* ------------------------------------------------- owner lookup (getPathInfo)
\* config.pathInfo, the table of ./config: which owners stand for which
\* directory; its first entry is the one for files at the root
pathInfo ==
    <<[path |-> <<"/">>, owners |-> <<"a", "b">>],
      [path |-> <<"src", "/">>, owners |-> <<"b", "c">>],
      [path |-> <<"docs", "/">>, owners |-> <<"c">>]>>

\* var filteredPathInfo = []
EmptyArray == [path |-> <<"[]">>, owners |-> <<>>]

\* the while loop of getPathInfo: pop a segment, take the last entry whose
\* path is the remaining segments joined and followed by "/"
RECURSIVE PathInfoLoop(_)
PathInfoLoop(splitPath) ==
    IF Len(splitPath) = 0 THEN EmptyArray
    ELSE LET popped == PopRest(splitPath)
             found == {i \in 1..Len(pathInfo) :
                          pathInfo[i].path = Join(popped) \o <<"/">>}
         IN IF found # {} THEN pathInfo[Max(found)] ELSE PathInfoLoop(popped)

\* getPathInfo looking up the path of the first file
GetPathInfoFirstFile(fs) ==
    IF Len(fs) = 0 THEN [status |-> "TypeError", info |-> EmptyArray]
    ELSE LET fullPath == fs[1].path
         IN IF \A i \in 1..Len(fullPath) : fullPath[i] # "/"
            THEN [status |-> "ok", info |-> pathInfo[1]]
            ELSE [status |-> "ok", info |-> PathInfoLoop(Split(fullPath))]

\* getPathInfo(files, ...): fullPath is the path of the last file; with no
\* file it stays undefined and fullPath.indexOf raises a TypeError
GetPathInfo(fs) ==
    IF Len(fs) = 0 THEN [status |-> "TypeError", info |-> EmptyArray]
    ELSE LET fullPath == fs[Len(fs)].path
         IN IF \A i \in 1..Len(fullPath) : fullPath[i] # "/"
            THEN [status |-> "ok", info |-> pathInfo[1]]
            ELSE [status |-> "ok", info |-> PathInfoLoop(Split(fullPath))]

\* ------------------------------------------------------------- cache keys
\* the characters outside [a-zA-Z0-9-_.] of a token replaced by "-"
SanitizeToken(t) ==
    IF t = "/" THEN "-" ELSE IF t = "https:" THEN "https-" ELSE t

\* `${id}`
IdString(id) == IF id = 1 THEN "1" ELSE "2"

\* `${repoURL}-pull-${id}.diff`.replace(/[^a-zA-Z0-9-_\.]/g, '-')
CacheKey(repoURL, id) ==
    [i \in 1..Len(repoURL) |-> SanitizeToken(repoURL[i])]
        \o <<"-pull-", IdString(id), ".diff">>

\* repoURL.split('/').slice(-2)
OwnerAndRepo(repoURL) ==
    LET parts == Split(repoURL)
    IN SubSeq(parts, IF Len(parts) > 2 THEN Len(parts) - 1 ELSE 1, Len(parts))

\* ---------------------------------------------------------- reviewer filters
\* users.some(user => user.skipTeamPrs) looking at the entries, not the flag
SomeUserAtAll(users) == Len(users) > 0

\* users.some(user => user.skipTeamPrs)
SomeSkipTeamPrs(users) == \E i \in 1..Len(users) : users[i].skipTeamPrs

\* teamData.filter(team => users.some(user => user.skipTeamPrs && user.name === team.name))
MatchingTeams(teamData, users) ==
    LET Keep(team) == \E i \in 1..Len(users) :
                         users[i].skipTeamPrs /\ users[i].name = team.name
    IN SelectSeq(teamData, Keep)

\* the membership record of a user in a team: the user's id and the state
\* of the membership
getTeamMembership(creator, teamInfo, state) == [name |-> creator, state |-> state]

\* the owners filter looking at every membership, whatever its state
RemoveAnyState(owners, teamMemberships) ==
    LET Keep(owner) == ~\E i \in 1..Len(teamMemberships) : owner = teamMemberships[i].name
    IN SelectSeq(owners, Keep)

\* teamMemberships.filter(active), then owners.filter(owner =>
\* !teamMemberships.find(membership => owner === membership.name))
RemoveActive(owners, teamMemberships) ==
    LET Active(membership) == membership.state = "active"
        active == SelectSeq(teamMemberships, Active)
        Keep(owner) == ~\E i \in 1..Len(active) : owner = active[i].name
    IN SelectSeq(owners, Keep)

\* the members that are owners, in the order of the member list
MembersThatAreOwners(owners, currentMembers) ==
    LET Keep(member) == \E i \in 1..Len(owners) : owners[i] = member
    IN SelectSeq(currentMembers, Keep)

\* owners.filter(owner => currentMembers.some(member => member === owner))
StillInOrg(owners, currentMembers) ==
    LET Keep(owner) == \E i \in 1..Len(currentMembers) : currentMembers[i] = owner
    IN SelectSeq(owners, Keep)

\* ------------------------------------------------------------ diff texts
PathFoo == <<"foo", ".js">>
PathPng == <<"x", ".png">>
PathSrc == <<"src", "/", "a", ".js">>
PathDoc == <<"docs", "/", "r", ".md">>
DevNull == <<"/dev/null">>

GitHeader(p, q) == <<"diff", " --git", " a/">> \o p \o <<" b/">> \o q
HeaderNoB(p) == <<"diff", " --git", " a/">> \o p
QuotedHeader == <<"diff", " --git", " \"a/sp ace\" \"b/sp ace\"">>
CombinedHeader == <<"diff", " --cc ", "foo", ".js">>
IndexLine == <<"index ", "83db48f..bf269c4 100644">>
NewFileLine == <<"new file", " mode 100644">>
DeletedFileLine == <<"deleted file", " mode 100644">>
OldModeLine == <<"old mode 100644">>
NewModeLine == <<"new mode 100755">>
SimilarityLine == <<"similarity index 100%">>
RenameFromLine(p) == <<"rename from ">> \o p
RenameToLine(p) == <<"rename to ">> \o p
BinaryLine(p) == <<"Binary files", " a/">> \o p \o <<" and b/">> \o p \o <<" differ">>
MinusLine(p) == <<"-", "-- ", "a/">> \o p
PlusLine(p) == <<"+", "++ ", "b/">> \o p
MinusNull == <<"-", "-- ">> \o DevNull
PlusNull == <<"+", "++ ">> \o DevNull
Hunk1 == <<"@@", " -", "1", ",", "5", " +", "1", ",", "5", " @@">>
Hunk5 == <<"@@", " -", "5", " +", "5", " @@", " function f()">>
BadHunk == <<"@@", "@ -1,5 -1,5 +1,5 @@@">>
Ctx == <<" ", "line">>
BlankCtx == <<" ">>
Del == <<"-", "line">>
Add == <<"+", "line">>
NoNewline == <<"\\ No newline at end of file">>
NotDiffLine == <<"not a diff">>

\* the file blocks git writes
ModBlock(p, body) == <<GitHeader(p, p), IndexLine, MinusLine(p), PlusLine(p)>> \o body
NewBlock(p, body) == <<GitHeader(p, p), NewFileLine, IndexLine, MinusNull, PlusLine(p)>> \o body
DeletedBlock(p, body) == <<GitHeader(p, p), DeletedFileLine, IndexLine, MinusLine(p), PlusNull>> \o body
BinaryBlock(p) == <<GitHeader(p, p), IndexLine, BinaryLine(p)>>
NewBinaryBlock(p) == <<GitHeader(p, p), NewFileLine, IndexLine, BinaryLine(p)>>
EmptyNewBlock(p) == <<GitHeader(p, p), NewFileLine, IndexLine>>
ModeBlock(p) == <<GitHeader(p, p), OldModeLine, NewModeLine>>
RenameBlock(p, q) == <<GitHeader(p, q), SimilarityLine, RenameFromLine(p), RenameToLine(q)>>

\* the hunk of the example: context, deletion, addition, context from line 1
ExampleBody == <<Hunk1, Ctx, Del, Add, Ctx>>
ExampleDiff == ModBlock(PathFoo, ExampleBody)

SeqsUpTo(S, n) == UNION {[1..k -> S] : k \in 0..n}

RECURSIVE Flatten(_)
Flatten(ss) == IF Len(ss) = 0 THEN <<>> ELSE Head(ss) \o Flatten(Tail(ss))

BodyLines == {Hunk1, Hunk5, BadHunk, Ctx, Del, Add}

BlockPaths == {PathFoo, PathPng}

\* blocks without a hunk body
BodilessBlocks ==
    UNION {{BinaryBlock(p), NewBinaryBlock(p), EmptyNewBlock(p), ModeBlock(p)} : p \in BlockPaths}

RenameBlocks == {RenameBlock(PathFoo, PathSrc)}

TextBlocks ==
    UNION {{ModBlock(p, ExampleBody), NewBlock(p, <<Hunk1, Add>>),
            DeletedBlock(p, <<Hunk1, Del, Del>>), ModBlock(p, <<Hunk5, Del, BlankCtx>>)}
           : p \in BlockPaths}

AcceptedBlocks == TextBlocks \cup BodilessBlocks \cup RenameBlocks

AcceptedDiffs == {Flatten(bs) : bs \in SeqsUpTo(AcceptedBlocks, MaxBlocks) \ {<<>>}}

RawLines ==
    {<<>>, NotDiffLine, GitHeader(PathFoo, PathFoo), HeaderNoB(PathFoo), QuotedHeader,
     CombinedHeader, IndexLine, NewFileLine, BinaryLine(PathPng), MinusLine(PathFoo),
     PlusLine(PathFoo), Hunk1, Del, NoNewline}

\* headers that are not of the shape  diff --git a/<path> b/<path>  in front
\* of what follows a header in a block
MalformedBlocks ==
    {<<h>> \o t : h \in {HeaderNoB(PathFoo), QuotedHeader, CombinedHeader},
                  t \in {<<IndexLine, BinaryLine(PathFoo)>>,
                         <<IndexLine, MinusLine(PathFoo), PlusLine(PathFoo), Hunk1, Del>>}}

RawTexts == SeqsUpTo(RawLines, MaxRaw) \ {<<>>}

ParseInputs ==
    AcceptedDiffs \cup RawTexts \cup MalformedBlocks
        \cup {b \o m : b \in BodilessBlocks, m \in MalformedBlocks}

\* one textual block with every body up to MaxBody lines, alone or in front
\* of another block; the empty text; a block without its +++ line
HunkInputs ==
    {ModBlock(PathFoo, body) \o tail :
        body \in SeqsUpTo(BodyLines, MaxBody), tail \in {<<>>, BinaryBlock(PathPng)}}
    \cup {<< <<>> >>, <<GitHeader(PathFoo, PathFoo), IndexLine, MinusLine(PathFoo), Ctx>>}

\* the diffs a pull request can have: up to MaxFiles file blocks, the empty
\* text, a text that is no diff and a diff with a rename
PipeBlocks ==
    {ModBlock(PathFoo, <<Hunk1, Del>>), ModBlock(PathSrc, <<Hunk1, Del, Del>>),
     BinaryBlock(PathPng), ModBlock(PathDoc, <<Hunk5, Del>>)}

PipeDiffs ==
    {Flatten(bs) : bs \in SeqsUpTo(PipeBlocks, MaxFiles) \ {<<>>}}
        \cup {<< <<>> >>, <<NotDiffLine>>, RenameBlock(PathFoo, PathSrc)}

GlobPng == <<"*", ".png">>
GlobSrc == <<"src", "/", "**">>
GlobJs == <<"**", "/", "*", ".js">>

Blacklists == {<<>>, <<GlobPng>>, <<GlobSrc, GlobPng>>, <<GlobJs>>}

RepoUrl == <<"https:", "/", "/", "github.com", "/", "org", "/", "repo">>

Ids == {"a", "b", "c"}

\* the member lists an org can have
Rosters == {<<"a", "b">>, <<"b", "a">>, <<"a", "b", "c">>, <<"c">>, <<>>}

\* the teams of the org, as getTeams lists them
OrgTeams == <<[name |-> "t1", id |-> 1], [name |-> "t2", id |-> 2], [name |-> "t3", id |-> 3]>>

WhitelistUsers ==
    {[name |-> n, files |-> <<>>, skipTeamPrs |-> b] : n \in {"t1", "t2", "a"}, b \in BOOLEAN}

MembershipStates == {"active", "pending"}

\* ------------------------------------------------------------------ state
VARIABLES diff,     \* the argument of parseDiff
          ppc,      \* "call", "loop", "returned", "thrown"
          lines,    \* the reversed array of lines still to parse
          files,    \* the records pushed so far
          perr,     \* the kind of error thrown, "" before
          enableCachingForDebugging,  \* module.exports.enableCachingForDebugging
          cacheFiles,   \* the files of the cache directory: key -> contents
          gateway,      \* the diff github serves for <<owner and repo, id>>
          orgMembers,   \* the current members of the org, as github lists them
          call,         \* the invocations of checkRepoPath
          computed,     \* cache key -> how often line 251 has called getFn for it
          filt          \* the invocation of filterOwnTeam / filterPrivateRepo

parseVars == <<diff, ppc, lines, files, perr>>

pipeVars == <<enableCachingForDebugging, cacheFiles, gateway, call, computed>>

vars == <<parseVars, pipeVars, orgMembers, filt>>

CallIds == {1, 2}

NoFiles == [k \in {} |-> <<>>]

IdleCall ==
    [pc |-> "idle", repoURL |-> <<>>, id |-> 0, privateRepo |-> FALSE,
     fileBlacklist |-> <<>>, numFilesToCheck |-> 0, diff |-> <<>>,
     parsed |-> <<>>, selected |-> <<>>, result |-> EmptyArray,
     err |-> "", errAt |-> "", rejected |-> FALSE]

IdleFilter ==
    [op |-> "", pc |-> "idle", users |-> <<>>, owners |-> <<>>, creator |-> "",
     teamData |-> <<>>, teamMemberships |-> <<>>, pending |-> {},
     result |-> <<>>, err |-> "", rejected |-> FALSE,
     teamsCalls |-> 0, membershipCalls |-> 0, membersCalls |-> 0]

ParseIdle ==
    /\ diff = << <<>> >>
    /\ ppc = "idle"
    /\ lines = <<>>
    /\ files = <<>>
    /\ perr = ""

PipeIdle ==
    /\ enableCachingForDebugging = FALSE
    /\ cacheFiles = NoFiles
    /\ gateway = NoFiles
    /\ call = [c \in CallIds |-> IdleCall]
    /\ computed = NoFiles

\* ------------------------------------------------------------ parseDiff
ParseInit(inputs) ==
    /\ diff \in inputs
    /\ ppc = "call"
    /\ lines = <<>>
    /\ files = <<>>
    /\ perr = ""
    /\ PipeIdle
    /\ orgMembers = <<>>
    /\ filt = IdleFilter

\* lines 148-153: not a diff, return the empty list
ParseDiffNotADiff ==
    /\ ppc = "call"
    /\ NotADiff(diff)
    /\ ppc' = "returned"
    /\ UNCHANGED <<diff, lines, files, perr, pipeVars, orgMembers, filt>>

\* lines 155-158
ParseDiffSplit ==
    /\ ppc = "call"
    /\ ~NotADiff(diff)
    /\ lines' = SplitLines(diff)
    /\ ppc' = "loop"
    /\ UNCHANGED <<diff, files, perr, pipeVars, orgMembers, filt>>

\* lines 160-162, one iteration in which parseDiffFile returns
ParseDiffFilePush ==
    /\ ppc = "loop"
    /\ Len(lines) > 0
    /\ LET r == ParseDiffFile(lines)
       IN /\ r.status = "ok"
          /\ files' = Append(files, FileInfo(r))
          /\ lines' = r.lines
    /\ UNCHANGED <<diff, ppc, perr, pipeVars, orgMembers, filt>>

\* lines 160-162, the iteration in which parseDiffFile throws
ParseDiffFileThrow ==
    /\ ppc = "loop"
    /\ Len(lines) > 0
    /\ LET r == ParseDiffFile(lines)
       IN /\ r.status # "ok"
          /\ perr' = r.status
    /\ ppc' = "thrown"
    /\ UNCHANGED <<diff, lines, files, pipeVars, orgMembers, filt>>

\* line 164
ParseDiffReturn ==
    /\ ppc = "loop"
    /\ Len(lines) = 0
    /\ ppc' = "returned"
    /\ UNCHANGED <<diff, lines, files, perr, pipeVars, orgMembers, filt>>

ParseNext ==
    \/ ParseDiffNotADiff
    \/ ParseDiffSplit
    \/ ParseDiffFilePush
    \/ ParseDiffFileThrow
    \/ ParseDiffReturn

SpecParse == ParseInit(ParseInputs) /\ [][ParseNext]_vars

SpecHunks == ParseInit(HunkInputs) /\ [][ParseNext]_vars

\* the loop at lines 160-162 has a parseDiffFile call to make: the states in
\* which ParseDiffFilePush or ParseDiffFileThrow is enabled
ParseRunning == ppc = "loop" /\ Len(lines) > 0

\* parseDiff is synchronous, a call runs on until it returns or throws: weak
\* fairness of every step, the one of the parseDiffFile call with its
\* enabling condition written as ParseRunning
ParseFairness ==
    /\ WF_vars(ParseDiffNotADiff)
    /\ WF_vars(ParseDiffSplit)
    /\ WF_vars(ParseDiffReturn)
    /\ []<>(~ParseRunning) \/ []<><<ParseDiffFilePush \/ ParseDiffFileThrow>>_vars

SpecParseFair == SpecParse /\ ParseFairness

\* ------------------------------------------------ checkRepoPath, cacheGet
GatewayKey(repoURL, id) == <<OwnerAndRepo(repoURL), id>>

PipeInit ==
    /\ ParseIdle
    /\ enableCachingForDebugging \in BOOLEAN
    /\ cacheFiles = NoFiles
    /\ gateway \in [{GatewayKey(RepoUrl, 1)} -> PipeDiffs]
    /\ orgMembers \in {<<"a", "b">>, <<"a", "b", "c">>}
    /\ call = [c \in CallIds |-> IdleCall]
    /\ computed = NoFiles
    /\ filt = IdleFilter

\* how often getFn has been called at line 251 for the key
Computes(key) == IF key \in DOMAIN computed THEN computed[key] ELSE 0

\* lines 327-332 and cacheGet up to its first await: without caching, or
\* with no cache file for the key, getFn asks github for the diff; with a
\* cache file, the file is read
CheckRepoPathCallWith(c, urls, ids, privs, blacklists, caps) ==
    /\ call[c].pc \in {"idle", "done", "failed"}
    /\ \E url \in urls, id \in ids, priv \in privs, bl \in blacklists, n \in caps :
          LET key == CacheKey(url, id)
              cached == enableCachingForDebugging /\ key \in DOMAIN cacheFiles
              computes == enableCachingForDebugging /\ ~cached
          IN /\ computes => Computes(key) < MaxComputes
             /\ computed' = IF computes
                            THEN (key :> (Computes(key) + 1)) @@ computed
                            ELSE computed
             /\ call' = [call EXCEPT ![c] =
                 [IdleCall EXCEPT !.pc = IF cached THEN "reading" ELSE "fetching",
                                  !.repoURL = url, !.id = id,
                                  !.privateRepo = priv, !.fileBlacklist = bl,
                                  !.numFilesToCheck = n]]
    /\ UNCHANGED <<parseVars, enableCachingForDebugging, cacheFiles, gateway,
                   orgMembers, filt>>

CheckRepoPathCall(c) ==
    CheckRepoPathCallWith(c, {RepoUrl}, {1}, BOOLEAN, Blacklists, 1..MaxCap)

\* lines 333-353, run when the diff is there: parseDiff, sort, blacklist,
\* slice, getPathInfo; an error of parseDiff or getPathInfo rejects the call
Finish(c, text) ==
    LET parsed == ParseDiff(text)
        got == [call[c] EXCEPT !.diff = text]
    IN IF parsed.status # "ok"
       THEN call' = [call EXCEPT ![c] =
                        [got EXCEPT !.pc = "failed", !.err = parsed.status,
                                    !.errAt = "parseDiff"]]
       ELSE \E sorted \in SortResults(parsed.files) :
               LET selected == Select(sorted, got.fileBlacklist, got.numFilesToCheck)
                   info == GetPathInfo(selected)
               IN call' = [call EXCEPT ![c] =
                     [got EXCEPT !.pc = IF info.status = "ok" THEN "done" ELSE "failed",
                                 !.err = IF info.status = "ok" THEN "" ELSE info.status,
                                 !.errAt = IF info.status = "ok" THEN "" ELSE "getPathInfo",
                                 !.parsed = parsed.files,
                                 !.selected = selected,
                                 !.result = info.info]]

\* getDiffForPullRequest resolves: with caching the contents are written to
\* the cache file and the file is read (lines 251-254); without, the diff
\* goes to checkRepoPath
GatewayResolve(c) ==
    /\ call[c].pc = "fetching"
    /\ LET contents == gateway[GatewayKey(call[c].repoURL, call[c].id)]
           key == CacheKey(call[c].repoURL, call[c].id)
       IN IF enableCachingForDebugging
          THEN /\ cacheFiles' = (key :> contents) @@ cacheFiles
               /\ call' = [call EXCEPT ![c].pc = "reading"]
          ELSE /\ Finish(c, contents)
               /\ UNCHANGED cacheFiles
    /\ UNCHANGED <<parseVars, enableCachingForDebugging, gateway, computed,
                   orgMembers, filt>>

\* getDiffForPullRequest rejects (lines 180-181): the error goes through
\* cacheGet to the caller of checkRepoPath
GatewayReject(c) ==
    /\ call[c].pc = "fetching"
    /\ call' = [call EXCEPT ![c].pc = "failed", ![c].err = "CollaboratorError",
                            ![c].errAt = "getDiffForPullRequest",
                            ![c].rejected = TRUE]
    /\ UNCHANGED <<parseVars, enableCachingForDebugging, cacheFiles, gateway,
                   computed, orgMembers, filt>>

\* readFileAsync(cacheKey) resolves with the contents of the cache file
ReadFileResolve(c) ==
    /\ call[c].pc = "reading"
    /\ Finish(c, cacheFiles[CacheKey(call[c].repoURL, call[c].id)])
    /\ UNCHANGED <<parseVars, enableCachingForDebugging, cacheFiles, gateway,
                   computed, orgMembers, filt>>

PipeNext ==
    \/ CheckRepoPathCall(1)
    \/ GatewayResolve(1)
    \/ GatewayReject(1)
    \/ ReadFileResolve(1)

SpecPipeline == PipeInit /\ [][PipeNext]_vars

\* two repositories: github.com/a-b/c and github.com/a/b-c
UrlOne == <<"https:", "/", "/", "github.com", "/", "a", "-", "b", "/", "c">>
UrlTwo == <<"https:", "/", "/", "github.com", "/", "a", "/", "b", "-", "c">>

CacheUrls == {UrlOne, UrlTwo}

CacheDiffs == {ModBlock(PathFoo, <<Hunk1, Del>>), ModBlock(PathSrc, <<Hunk1, Del>>)}

\* two invocations that may overlap, each for pull request 1 of one of the
\* two repositories
CacheInit ==
    /\ ParseIdle
    /\ enableCachingForDebugging \in BOOLEAN
    /\ cacheFiles = NoFiles
    /\ gateway \in [{GatewayKey(url, 1) : url \in CacheUrls} -> CacheDiffs]
    /\ orgMembers = <<"a", "b">>
    /\ call = [c \in CallIds |-> IdleCall]
    /\ computed = NoFiles
    /\ filt = IdleFilter

CacheNext ==
    \E c \in CallIds :
        \/ CheckRepoPathCallWith(c, CacheUrls, {1}, {FALSE}, {<<>>}, {1})
        \/ GatewayResolve(c)
        \/ GatewayReject(c)
        \/ ReadFileResolve(c)

SpecCache == CacheInit /\ [][CacheNext]_vars

\* ------------------------------------- filterOwnTeam, filterPrivateRepo
FilterInit ==
    /\ ParseIdle
    /\ PipeIdle
    /\ \/ /\ orgMembers = <<>>
          /\ \E us \in SeqsUpTo(WhitelistUsers, MaxUsers), os \in SeqsUpTo(Ids, MaxOwners),
                cr \in {"a", "c"} :
                filt = [IdleFilter EXCEPT !.op = "filterOwnTeam", !.pc = "call",
                                          !.users = us, !.owners = os, !.creator = cr]
       \/ /\ orgMembers \in Rosters
          /\ \E os \in SeqsUpTo(Ids, MaxOwners) :
                filt = [IdleFilter EXCEPT !.op = "filterPrivateRepo", !.pc = "call",
                                          !.owners = os]

\* lines 196-200: no user skips team PRs, the owners are returned as they are
FilterOwnTeamFastPath ==
    /\ filt.op = "filterOwnTeam" /\ filt.pc = "call"
    /\ ~SomeSkipTeamPrs(filt.users)
    /\ filt' = [filt EXCEPT !.pc = "done", !.result = filt.owners]
    /\ UNCHANGED <<parseVars, pipeVars, orgMembers>>

\* line 205: getTeams is called and awaited
FilterOwnTeamGetTeams ==
    /\ filt.op = "filterOwnTeam" /\ filt.pc = "call"
    /\ SomeSkipTeamPrs(filt.users)
    /\ filt' = [filt EXCEPT !.pc = "awaitTeams", !.teamsCalls = @ + 1]
    /\ UNCHANGED <<parseVars, pipeVars, orgMembers>>

\* lines 206-214: the teams arrive, one membership lookup is issued for
\* every matching team and all of them are awaited; with no matching team
\* Promise.all([]) resolves at once and the owners are filtered (215-222)
GetTeamsResolve ==
    /\ filt.pc = "awaitTeams"
    /\ LET teamData == MatchingTeams(OrgTeams, filt.users)
       IN filt' = IF Len(teamData) = 0
                  THEN [filt EXCEPT !.pc = "done", !.result = RemoveActive(filt.owners, <<>>)]
                  ELSE [filt EXCEPT !.pc = "awaitMemberships",
                                    !.teamData = teamData,
                                    !.teamMemberships =
                                        [i \in 1..Len(teamData) |->
                                            getTeamMembership(filt.creator, teamData[i], "")],
                                    !.pending = 1..Len(teamData),
                                    !.membershipCalls = @ + Len(teamData)]
    /\ UNCHANGED <<parseVars, pipeVars, orgMembers>>

\* getTeams fails: the error leaves filterOwnTeam
GetTeamsReject ==
    /\ filt.pc = "awaitTeams"
    /\ filt' = [filt EXCEPT !.pc = "failed", !.err = "CollaboratorError",
                            !.rejected = TRUE]
    /\ UNCHANGED <<parseVars, pipeVars, orgMembers>>

\* the owners filtered as soon as one membership lookup has resolved
GetTeamMembershipResolveFirst(i) ==
    /\ filt.pc = "awaitMemberships"
    /\ i \in filt.pending
    /\ \E st \in MembershipStates :
          LET ms == [filt.teamMemberships EXCEPT
                        ![i] = getTeamMembership(filt.creator, filt.teamData[i], st)]
          IN filt' = [filt EXCEPT !.pc = "done", !.teamMemberships = ms,
                                  !.pending = @ \ {i},
                                  !.result = RemoveActive(filt.owners, ms)]
    /\ UNCHANGED <<parseVars, pipeVars, orgMembers>>

\* one membership lookup resolves; when it is the last one Promise.all
\* resolves and lines 215-222 filter the owners
GetTeamMembershipResolve(i) ==
    /\ filt.pc = "awaitMemberships"
    /\ i \in filt.pending
    /\ \E st \in MembershipStates :
          LET ms == [filt.teamMemberships EXCEPT
                        ![i] = getTeamMembership(filt.creator, filt.teamData[i], st)]
          IN filt' = IF filt.pending = {i}
                     THEN [filt EXCEPT !.pc = "done", !.teamMemberships = ms,
                                       !.pending = {},
                                       !.result = RemoveActive(filt.owners, ms)]
                     ELSE [filt EXCEPT !.teamMemberships = ms, !.pending = @ \ {i}]
    /\ UNCHANGED <<parseVars, pipeVars, orgMembers>>

\* a failed membership lookup taken for a membership that is not active, the
\* other lookups still awaited
GetTeamMembershipRejectSwallowed(i) ==
    /\ filt.pc = "awaitMemberships"
    /\ i \in filt.pending
    /\ LET ms == [filt.teamMemberships EXCEPT ![i].state = "unknown"]
       IN filt' = IF filt.pending = {i}
                  THEN [filt EXCEPT !.pc = "done", !.teamMemberships = ms,
                                    !.pending = {}, !.rejected = TRUE,
                                    !.result = RemoveActive(filt.owners, ms)]
                  ELSE [filt EXCEPT !.teamMemberships = ms, !.pending = @ \ {i},
                                    !.rejected = TRUE]
    /\ UNCHANGED <<parseVars, pipeVars, orgMembers>>

\* one membership lookup fails: Promise.all rejects and the error leaves
\* filterOwnTeam
GetTeamMembershipReject(i) ==
    /\ filt.pc = "awaitMemberships"
    /\ i \in filt.pending
    /\ filt' = [filt EXCEPT !.pc = "failed", !.err = "CollaboratorError",
                            !.rejected = TRUE]
    /\ UNCHANGED <<parseVars, pipeVars, orgMembers>>

\* line 269: getMembersOfOrg is called and awaited
FilterPrivateRepoCall ==
    /\ filt.op = "filterPrivateRepo" /\ filt.pc = "call"
    /\ filt' = [filt EXCEPT !.pc = "awaitMembers", !.membersCalls = @ + 1]
    /\ UNCHANGED <<parseVars, pipeVars, orgMembers>>

\* lines 271-276: the members arrive and the owners still in the org are kept
GetMembersOfOrgResolve ==
    /\ filt.pc = "awaitMembers"
    /\ filt' = [filt EXCEPT !.pc = "done", !.result = StillInOrg(filt.owners, orgMembers)]
    /\ UNCHANGED <<parseVars, pipeVars, orgMembers>>

\* getMembersOfOrg fails: the error leaves filterPrivateRepo
GetMembersOfOrgReject ==
    /\ filt.pc = "awaitMembers"
    /\ filt' = [filt EXCEPT !.pc = "failed", !.err = "CollaboratorError",
                            !.rejected = TRUE]
    /\ UNCHANGED <<parseVars, pipeVars, orgMembers>>

FilterNext ==
    \/ FilterOwnTeamFastPath
    \/ FilterOwnTeamGetTeams
    \/ GetTeamsResolve
    \/ GetTeamsReject
    \/ \E i \in 1..Len(OrgTeams) : GetTeamMembershipResolve(i)
    \/ \E i \in 1..Len(OrgTeams) : GetTeamMembershipReject(i)
    \/ FilterPrivateRepoCall
    \/ GetMembersOfOrgResolve
    \/ GetMembersOfOrgReject

SpecFilter == FilterInit /\ [][FilterNext]_vars

\* either entry point is invoked: checkRepoPath, or one of the two filters
CollabInit == PipeInit \/ FilterInit

CollabNext ==
    \/ filt.op = "" /\ PipeNext
    \/ filt.op # "" /\ FilterNext

SpecCollab == CollabInit /\ [][CollabNext]_vars

\* ---------------------------------------------------------------- claims
\* what a reader of the text sees, stated without the parser's operators
AllPaths == {PathFoo, PathPng, PathSrc, PathDoc}

WellShapedHeader(line) == \E p \in AllPaths, q \in AllPaths : line = GitHeader(p, q)

ASidePath(line) == CHOOSE p \in AllPaths : \E q \in AllPaths : line = GitHeader(p, q)

IsPrefix(pre, line) == Len(line) >= Len(pre) /\ \A i \in 1..Len(pre) : line[i] = pre[i]

HeaderPositions(text) == {i \in 1..Len(text) : IsPrefix(<<"diff", " --git">>, text[i])}

\* the positions of the header lines, in order
RECURSIVE Ascending(_)
Ascending(S) ==
    IF S = {} THEN <<>>
    ELSE LET m == CHOOSE x \in S : \A y \in S : x <= y
         IN <<m>> \o Ascending(S \ {m})

HeaderPaths(text) ==
    LET pos == Ascending(HeaderPositions(text))
    IN [k \in 1..Len(pos) |-> ASidePath(text[pos[k]])]

\* the k-th block: from its header line to the line before the next header
BlockOf(text, k) ==
    LET pos == Ascending(HeaderPositions(text))
        last == IF k < Len(pos) THEN pos[k + 1] - 1 ELSE Len(text)
    IN SubSeq(text, pos[k], last)

\* the position of the "--- " line of a textual block, 0 for another block
MinusPos(blk) ==
    IF Len(blk) >= 4 /\ IsPrefix(<<"index ">>, blk[2])
       /\ IsPrefix(<<"-", "-- ">>, blk[3]) /\ IsPrefix(<<"+", "++ ">>, blk[4])
    THEN 3
    ELSE IF Len(blk) >= 5 /\ blk[2] \in {NewFileLine, DeletedFileLine}
            /\ IsPrefix(<<"index ">>, blk[3])
            /\ IsPrefix(<<"-", "-- ">>, blk[4]) /\ IsPrefix(<<"+", "++ ">>, blk[5])
    THEN 4
    ELSE 0

HunkBody(blk) == SubSeq(blk, MinusPos(blk) + 2, Len(blk))

IsDeletion(line) == IsPrefix(<<"-">>, line)
IsAddition(line) == IsPrefix(<<"+">>, line)
IsAtAt(line) == IsPrefix(<<"@@">>, line)
IsHunkHeader(line) == line \in {Hunk1, Hunk5}
MinusStart(line) == IF line = Hunk1 THEN 1 ELSE 5

DeletionPositions(body) == {j \in 1..Len(body) : IsDeletion(body[j])}

HeadersBefore(body, j) == {h \in 1..(j - 1) : IsHunkHeader(body[h])}

\* s plus the number of body lines, additions apart, between the hunk header
\* and line j
OriginalLineNumber(body, j) ==
    LET h == CHOOSE x \in HeadersBefore(body, j) : \A y \in HeadersBefore(body, j) : y <= x
    IN MinusStart(body[h])
         + Cardinality({k \in (h + 1)..(j - 1) : ~IsAtAt(body[k]) /\ ~IsAddition(body[k])})

DeletedLinesAsClaimed(body, deleted) ==
    /\ Len(deleted) = Cardinality(DeletionPositions(body))
    /\ \A j \in DeletionPositions(body) :
          HeadersBefore(body, j) # {} =>
             deleted[Cardinality({i \in DeletionPositions(body) : i <= j})]
                = OriginalLineNumber(body, j)

\* C1: for every textual block of a parsed diff, deletedLines lists, in
\* order, one number per '-' body line, and a '-' line after a hunk header
\* with minus-side start s is recorded as s plus the number of earlier body
\* lines of that hunk that are not additions; the example yields [2].
C1_DeletedLineNumbers ==
    (ppc = "returned" /\ ~(diff = << <<>> >>)) =>
        /\ Len(files) = Cardinality(HeaderPositions(diff))
        /\ \A k \in 1..Len(files) :
              MinusPos(BlockOf(diff, k)) # 0 =>
                 DeletedLinesAsClaimed(HunkBody(BlockOf(diff, k)), files[k].deletedLines)
        /\ diff = ExampleDiff =>
              files = <<[path |-> PathFoo, deletedLines |-> <<2>>]>>

C1_Witness ==
    /\ ppc = "returned"
    /\ diff = ExampleDiff
    /\ files = <<[path |-> PathFoo, deletedLines |-> <<2>>]>>

EmptyOrNoDiffStart(text) ==
    \/ text = << <<>> >>
    \/ Len(text[1]) = 0
    \/ text[1][1] # "diff"

\* C2: for an input that is empty or whose first line does not start with
\* "diff", parseDiff raises no error, parses no line and returns the empty
\* sequence.
C2_NotADiffReturnsEmpty ==
    EmptyOrNoDiffStart(diff) =>
        /\ ppc \in {"call", "returned"}
        /\ files = <<>>
        /\ perr = ""

C2_Witness ==
    /\ ppc = "returned"
    /\ diff = <<NotDiffLine>>
    /\ files = <<>>

\* C3: for a concatenation of file blocks of the accepted forms, parseDiff
\* does not throw and returns one record per header line, in the order of
\* the headers, each with the path of its own header.
C3_OneRecordPerHeader ==
    diff \in AcceptedDiffs =>
        /\ ppc # "thrown"
        /\ ppc = "returned" =>
              [k \in 1..Len(files) |-> files[k].path] = HeaderPaths(diff)

\* C4: every record parseDiff holds carries the a/-side path of a header
\* line of the shape  diff --git a/<path> b/<path>  of the input; a block
\* whose first line has another shape gives an error, never a record.
C4_MalformedHeaderFails ==
    \A k \in 1..Len(files) :
        \E i \in 1..Len(diff) :
            WellShapedHeader(diff[i]) /\ files[k].path = ASidePath(diff[i])

\* the number of lines of the binary block on top of the stack, 0 if none
BinaryBlockOnTop(stack) ==
    LET n == Len(stack)
    IN IF n >= 3 /\ WellShapedHeader(stack[n]) /\ IsPrefix(<<"index ">>, stack[n - 1])
          /\ IsPrefix(<<"Binary files">>, stack[n - 2])
       THEN 3
       ELSE IF n >= 4 /\ WellShapedHeader(stack[n])
               /\ stack[n - 1] \in {NewFileLine, DeletedFileLine}
               /\ IsPrefix(<<"index ">>, stack[n - 2])
               /\ IsPrefix(<<"Binary files">>, stack[n - 3])
       THEN 4
       ELSE 0

\* C5: parsing a block whose body line starts with "Binary files" pushes
\* the record of the header's path with no deleted lines, consumes exactly
\* the lines of that block and goes on with the line after them.
C5_BinaryBlock ==
    [][(ppc = "loop" /\ BinaryBlockOnTop(lines) # 0) =>
         /\ files' = Append(files, [path |-> ASidePath(lines[Len(lines)]),
                                    deletedLines |-> <<>>])
         /\ lines' = SubSeq(lines, 1, Len(lines) - BinaryBlockOnTop(lines))
         /\ ppc' = "loop"]_vars

C5_Witness ==
    /\ ppc = "returned"
    /\ diff = NewBinaryBlock(PathPng) \o ExampleDiff
    /\ files = <<[path |-> PathPng, deletedLines |-> <<>>],
                 [path |-> PathFoo, deletedLines |-> <<2>>]>>

\* the selection steps (lines 340-351) of call c have run
Selected(c) ==
    \/ call[c].pc = "done"
    \/ call[c].pc = "failed" /\ call[c].errAt = "getPathInfo"

NotBlacklisted(fs, fileBlacklist) ==
    {i \in 1..Len(fs) :
        \A g \in 1..Len(fileBlacklist) : ~minimatch(fs[i].path, fileBlacklist[g])}

Min(x, y) == IF x < y THEN x ELSE y

\* C6: the number of files left after sort, blacklist removal and
\* truncation is at most min(cap, number of parsed files that match no
\* blacklist glob).
C6_SelectionSize ==
    Selected(1) =>
        Len(call[1].selected)
            <= Min(call[1].numFilesToCheck,
                   Cardinality(NotBlacklisted(call[1].parsed, call[1].fileBlacklist)))

C6_Witness ==
    /\ call[1].pc = "done"
    /\ Len(call[1].parsed) = 3
    /\ Cardinality(NotBlacklisted(call[1].parsed, call[1].fileBlacklist)) = 2
    /\ call[1].numFilesToCheck = 1
    /\ Len(call[1].selected) = 1

\* C7: the selected files are ordered non-increasing by the number of
\* their deleted lines.
C7_SelectionOrder ==
    Selected(1) =>
        \A i \in 1..(Len(call[1].selected) - 1) :
            Len(call[1].selected[i].deletedLines)
                >= Len(call[1].selected[i + 1].deletedLines)

C7_Witness ==
    /\ call[1].pc = "done"
    /\ Len(call[1].parsed) = 3
    /\ Len(call[1].parsed[1].deletedLines) < Len(call[1].parsed[2].deletedLines)
    /\ Len(call[1].selected) = 2
    /\ Len(call[1].selected[1].deletedLines) > Len(call[1].selected[2].deletedLines)

NoSkipTeamPrs(users) == \A i \in 1..Len(users) : users[i].skipTeamPrs = FALSE

\* C8: when no whitelist entry has skipTeamPrs, filterOwnTeam returns the
\* owners it was given and calls no collaborator: no team listing, no
\* membership lookup, no member listing.
C8_FastPath ==
    (filt.op = "filterOwnTeam" /\ NoSkipTeamPrs(filt.users)) =>
        /\ filt.pc \in {"call", "done"}
        /\ filt.teamsCalls = 0 /\ filt.membershipCalls = 0 /\ filt.membersCalls = 0
        /\ filt.pc = "done" => filt.result = filt.owners

C8_Witness ==
    /\ filt.op = "filterOwnTeam" /\ filt.pc = "done"
    /\ Len(filt.users) = 2 /\ NoSkipTeamPrs(filt.users)
    /\ filt.owners = <<"c", "a">> /\ filt.creator = "a"
    /\ filt.result = <<"c", "a">>

Members == {orgMembers[i] : i \in 1..Len(orgMembers)}

KeptPositions(owners) == {i \in 1..Len(owners) : owners[i] \in Members}

\* C9: filterPrivateRepo returns the owners that are in the member list, in
\* their order in the owners list, each as often as it was given; roster
\* {a, b} and owners [a, b, c] give [a, b].
C9_PrivateRepoSubsequence ==
    (filt.op = "filterPrivateRepo" /\ filt.pc = "done") =>
        /\ Len(filt.result) = Cardinality(KeptPositions(filt.owners))
        /\ \A i \in KeptPositions(filt.owners) :
              filt.result[Cardinality({j \in KeptPositions(filt.owners) : j <= i})]
                  = filt.owners[i]
        /\ (Members = {"a", "b"} /\ filt.owners = <<"a", "b", "c">>) =>
              filt.result = <<"a", "b">>

C9_Witness ==
    /\ filt.op = "filterPrivateRepo" /\ filt.pc = "done"
    /\ orgMembers = <<"b", "a">>
    /\ filt.owners = <<"a", "b", "c">>
    /\ filt.result = <<"a", "b">>

\* C10: a checkRepoPath call for a private repository returns only
\* identifiers of current members of the org: the org-membership stage has
\* run on the owners before the result is returned.
C10_PrivateRepoOnlyMembers ==
    (call[1].pc = "done" /\ call[1].privateRepo) =>
        \A i \in 1..Len(call[1].result.owners) : call[1].result.owners[i] \in Members

\* C11: when the diff fetch, the team listing, a membership lookup or the
\* member listing has failed, the operation that awaited it has failed with
\* that error, holds no result, asked each collaborator no more than once
\* per team, and stays failed.
C11_CollaboratorFailureStops ==
    /\ [](filt.rejected =>
            /\ filt.pc = "failed" /\ filt.err = "CollaboratorError"
            /\ filt.result = <<>>
            /\ filt.teamsCalls <= 1 /\ filt.membersCalls <= 1
            /\ filt.membershipCalls <= Len(filt.teamData))
    /\ [](\A c \in CallIds : call[c].rejected =>
            /\ call[c].pc = "failed" /\ call[c].err = "CollaboratorError"
            /\ call[c].selected = <<>> /\ call[c].result = EmptyArray)
    /\ [][filt.pc = "failed" => filt' = filt]_vars

C11_Witness ==
    /\ filt.op = "filterOwnTeam" /\ filt.pc = "failed" /\ filt.rejected
    /\ Len(filt.teamData) = 2 /\ Cardinality(filt.pending) = 1
    /\ \E i \in 1..2 : filt.teamMemberships[i].state = "active"
    /\ filt.creator = "a" /\ filt.owners = <<"a", "b">>
    /\ filt.result = <<>>

\* C12: with caching enabled, getFn is called at most once for a cache key,
\* whatever the interleaving of the cacheGet calls for that key.
C12_ComputeAtMostOnce ==
    \A key \in DOMAIN computed : computed[key] <= 1

SkipNames(users) == {users[i].name : i \in {j \in 1..Len(users) : users[j].skipTeamPrs}}

TeamNames(teams) == {teams[i].name : i \in 1..Len(teams)}

CreatorActive ==
    \E i \in 1..Len(filt.teamMemberships) :
        /\ filt.teamData[i].name \in SkipNames(filt.users)
        /\ filt.teamMemberships[i].state = "active"

WithoutCreator(owners, creator) ==
    LET NotCreator(owner) == owner # creator
    IN SelectSeq(owners, NotCreator)

\* C13: when some whitelist entry has skipTeamPrs, a filterOwnTeam that
\* returns has looked at exactly the org teams named by a skipTeamPrs entry;
\* if the creator is an active member of one of them the result is the
\* owners without the creator, in their order, and otherwise (no matching
\* team, or no active membership) the result is the owners as given.
C13_OwnTeamRemovesCreator ==
    (filt.op = "filterOwnTeam" /\ SomeSkipTeamPrs(filt.users) /\ filt.pc = "done") =>
        /\ TeamNames(filt.teamData) = TeamNames(OrgTeams) \cap SkipNames(filt.users)
        /\ Len(filt.teamMemberships) = Len(filt.teamData)
        /\ filt.result = IF CreatorActive
                         THEN WithoutCreator(filt.owners, filt.creator)
                         ELSE filt.owners

C13_Witness ==
    /\ filt.op = "filterOwnTeam" /\ filt.pc = "done"
    /\ filt.creator = "a" /\ filt.owners = <<"b", "a", "c">>
    /\ Len(filt.teamData) = 2
    /\ filt.teamMemberships[1].state = "pending"
    /\ filt.teamMemberships[2].state = "active"
    /\ filt.result = <<"b", "c">>

ActiveNames ==
    {filt.teamMemberships[i].name :
        i \in {j \in 1..Len(filt.teamMemberships) : filt.teamMemberships[j].state = "active"}}

IsSubsequenceAt(result, owners, positions) ==
    /\ Len(result) = Cardinality(positions)
    /\ \A i \in positions :
          result[Cardinality({j \in positions : j <= i})] = owners[i]

\* C14: while membership lookups are awaited, one lookup has been issued for
\* every matching team and no owner has been filtered yet; filterOwnTeam
\* returns from the slow path only when every lookup has resolved, and what it
\* returns is determined by the owners and the resolved states alone, whatever
\* the order in which the lookups resolved.
C14_LookupsJoined ==
    /\ filt.pc = "awaitMemberships" =>
          /\ filt.pending # {} /\ filt.pending \subseteq 1..Len(filt.teamData)
          /\ filt.membershipCalls = Len(filt.teamData)
          /\ filt.result = <<>>
    /\ (filt.op = "filterOwnTeam" /\ filt.pc = "done" /\ filt.teamsCalls = 1) =>
          /\ filt.pending = {}
          /\ filt.membershipCalls = Len(filt.teamData)
          /\ \A i \in 1..Len(filt.teamMemberships) :
                filt.teamMemberships[i].state \in MembershipStates
          /\ IsSubsequenceAt(filt.result, filt.owners,
                {i \in 1..Len(filt.owners) : filt.owners[i] \notin ActiveNames})

C14_Witness ==
    /\ filt.op = "filterOwnTeam" /\ filt.pc = "awaitMemberships"
    /\ Len(filt.teamData) = 2 /\ filt.membershipCalls = 2
    /\ filt.pending = {1}
    /\ filt.teamMemberships[2].state = "active"
    /\ filt.owners = <<"a", "b">> /\ filt.creator = "a"
    /\ filt.result = <<>>

Injections(S, T) ==
    {f \in [S -> T] : \A x, y \in S : x # y => f[x] # f[y]}

\* C15: no selected file matches a glob of the blacklist, the selection has
\* min(cap, n) files where n is the number of parsed files matching no glob,
\* every selected file is one of those n files, and a file of those n that
\* was not selected was left out only because cap files with at least as
\* many deleted lines were selected.
C15_BlacklistBeforeTruncation ==
    Selected(1) =>
        LET sel == call[1].selected
            parsed == call[1].parsed
            cap == call[1].numFilesToCheck
            nb == NotBlacklisted(parsed, call[1].fileBlacklist)
        IN /\ NotBlacklisted(sel, call[1].fileBlacklist) = 1..Len(sel)
           /\ Len(sel) = Min(cap, Cardinality(nb))
           /\ \E f \in Injections(1..Len(sel), nb) :
                 /\ \A i \in 1..Len(sel) : sel[i] = parsed[f[i]]
                 /\ \A j \in nb \ {f[i] : i \in 1..Len(sel)} :
                       /\ Len(sel) = cap
                       /\ \A i \in 1..Len(sel) :
                             Len(sel[i].deletedLines) >= Len(parsed[j].deletedLines)

C15_Witness ==
    /\ call[1].pc = "done"
    /\ call[1].fileBlacklist = <<GlobSrc, GlobPng>>
    /\ call[1].numFilesToCheck = 2
    /\ Len(call[1].parsed) = 3
    /\ call[1].parsed[1].path = PathSrc
    /\ Len(call[1].parsed[1].deletedLines) = 2
    /\ Len(call[1].selected) = 2
    /\ \A i \in 1..2 : Len(call[1].selected[i].deletedLines) = 1

\* the number of minus-side lines of a hunk header; a header without a count
\* stands for one line
MinusCount(line) == IF line = Hunk1 THEN 5 ELSE 1

MinusRange(line) == MinusStart(line)..(MinusStart(line) + MinusCount(line) - 1)

\* C16: every number in the deletedLines of a record parseDiff returns is at
\* least 1 and lies in the minus-side range of a hunk header of the record's
\* block, also for a '-' line before the first hunk header and after a hunk
\* header line that was skipped.
C16_DeletedLinesInHunkRange ==
    (ppc = "returned" /\ ~(diff = << <<>> >>)) =>
        \A k \in 1..Len(files) :
            \A d \in 1..Len(files[k].deletedLines) :
                /\ files[k].deletedLines[d] >= 1
                /\ \E h \in 1..Len(BlockOf(diff, k)) :
                      /\ IsHunkHeader(BlockOf(diff, k)[h])
                      /\ files[k].deletedLines[d] \in MinusRange(BlockOf(diff, k)[h])

\* the diff of call c was fetched and the call is over
FetchedAndOver(c) ==
    /\ call[c].pc \in {"done", "failed"}
    /\ call[c].errAt # "getDiffForPullRequest"

\* C17: a checkRepoPath whose diff is empty or does not start like a diff,
\* or whose parsed files all match the blacklist, completes without an error
\* and returns an empty owner result.
C17_NoFilesEmptyResult ==
    (/\ FetchedAndOver(1)
     /\ \/ EmptyOrNoDiffStart(call[1].diff)
        \/ /\ call[1].errAt # "parseDiff"
           /\ NotBlacklisted(call[1].parsed, call[1].fileBlacklist) = {}) =>
        /\ call[1].pc = "done"
        /\ call[1].err = ""
        /\ call[1].result = EmptyArray

\* what a run of call c's arguments gives when the diff comes from the
\* gateway: the error and the owner record of every outcome
WithoutCache(c) ==
    LET parsed == ParseDiff(gateway[GatewayKey(call[c].repoURL, call[c].id)])
    IN IF parsed.status # "ok"
       THEN {[err |-> parsed.status, result |-> EmptyArray]}
       ELSE {[err |-> IF GetPathInfo(selected).status = "ok"
                      THEN "" ELSE GetPathInfo(selected).status,
              result |-> GetPathInfo(selected).info] :
                selected \in {Select(sorted, call[c].fileBlacklist,
                                     call[c].numFilesToCheck) :
                                 sorted \in SortResults(parsed.files)}}

\* C18: with caching enabled, a checkRepoPath run that got its diff has
\* worked on the diff the gateway serves for its own repository and pull
\* request, and ends as a run without caching can end, whatever runs for
\* the same or for other pull requests came before.
C18_CacheKeepsResults ==
    \A c \in CallIds :
        (enableCachingForDebugging /\ FetchedAndOver(c)) =>
            /\ call[c].diff = gateway[GatewayKey(call[c].repoURL, call[c].id)]
            /\ [err |-> call[c].err, result |-> call[c].result] \in WithoutCache(c)

\* C19: every parseDiffFile call that returns leaves fewer lines than it
\* found, and every parseDiff call comes to its end, returning or throwing.
C19_ParseDiffTerminates ==
    /\ [][(ppc = "loop" /\ ppc' = "loop") => Len(lines') < Len(lines)]_vars
    /\ <>(ppc \in {"returned", "thrown"})

C19_Witness ==
    /\ ppc = "returned"
    /\ Cardinality(HeaderPositions(diff)) = 2
    /\ BlockOf(diff, 1) = EmptyNewBlock(PathFoo)
    /\ Len(files) = 2
    /\ lines = <<>>

\* the entries whose path is a directory above the file, or the root "/"
EntriesAbove(path) ==
    {i \in 1..Len(pathInfo) :
        \/ pathInfo[i].path = <<"/">>
        \/ IsPrefix(pathInfo[i].path, path) /\ Len(pathInfo[i].path) < Len(path)}

\* the owners record of one path: the first entry for a file at the top,
\* else the last entry of the nearest directory above it that has one
RecordOfPath(path) ==
    IF \A i \in 1..Len(path) : path[i] # "/" THEN pathInfo[1]
    ELSE IF EntriesAbove(path) = {} THEN EmptyArray
    ELSE LET nearest == {i \in EntriesAbove(path) :
                            \A j \in EntriesAbove(path) :
                                Len(pathInfo[j].path) <= Len(pathInfo[i].path)}
         IN pathInfo[Max(nearest)]

\* C20: the owners record checkRepoPath returns is the record of the path of
\* the last selected file, whatever the other selected files are.
C20_LastFileDecides ==
    call[1].pc = "done" =>
        /\ Len(call[1].selected) > 0
        /\ call[1].result = RecordOfPath(call[1].selected[Len(call[1].selected)].path)

C20_Witness ==
    /\ call[1].pc = "done"
    /\ Len(call[1].selected) = 2
    /\ call[1].selected[1].path = PathSrc
    /\ call[1].selected[2].path = PathDoc
    /\ call[1].result = [path |-> <<"docs", "/">>, owners |-> <<"c">>]

====
